---------------------------- MODULE Spec2Model ----------------------------
(***************************************************************************)
(* new21.h of cogciprocate/ocl: the OpenCL 2.0 / 2.1 entry points the      *)
(* bindings add on top of the 1.2 surface.  The header is a list of extern *)
(* function declarations; each one is transcribed below as a record        *)
(*   banner   - the text of the "NEW x.y" banner comment above it          *)
(*   ret      - the declared return type                                   *)
(*   name     - the declared function name                                 *)
(*   params   - the parameter list, in order: the declared type and the    *)
(*              name the header gives in the comment next to it            *)
(*   suffixes - the CL_API_SUFFIX__* macros between ')' and ';'            *)
(* Type spellings are normalised as tokens: "cl_int *" and "cl_int*" are   *)
(* both written "cl_int*".                                                 *)
(*                                                                         *)
(* The state machine is the binding layer over the header: it learns the   *)
(* version the platform reports, and every call of a declared entry point  *)
(* is checked against the revision of the entry's suffix before it is      *)
(* handed to the driver.  Versions are encoded as 10 * major + minor.      *)
(***************************************************************************)
EXTENDS Naturals, Sequences, FiniteSets

\* Longest sequence of calls that reach the driver in one run.
MaxCalls == 2

\* Versions a platform may report: 1.0, 1.1, 1.2, 2.0, 2.1, 2.2.
Versions == {10, 11, 12, 20, 21, 22}

\* One parameter of a declaration.
Param(t, n) == [type |-> t, name |-> n]

(***************************************************************************)
(* The declarations, in the order of the header.                           *)
(***************************************************************************)

\* new21.h:1-5
clSetDefaultDeviceCommandQueue ==
    [banner   |-> "NEW 2.1",
     ret      |-> "cl_int",
     name     |-> "clSetDefaultDeviceCommandQueue",
     params   |-> <<
         Param("cl_context", "context"),
         Param("cl_device_id", "device"),
         Param("cl_command_queue", "command_queue") >>,
     suffixes |-> << "CL_API_SUFFIX__VERSION_2_1" >>]

\* new21.h:7-11
clGetDeviceAndHostTimer ==
    [banner   |-> "NEW 2.1",
     ret      |-> "cl_int",
     name     |-> "clGetDeviceAndHostTimer",
     params   |-> <<
         Param("cl_device_id", "device"),
         Param("cl_ulong*", "device_timestamp"),
         Param("cl_ulong*", "host_timestamp") >>,
     suffixes |-> << "CL_API_SUFFIX__VERSION_2_1" >>]

\* new21.h:13-16
clGetHostTimer ==
    [banner   |-> "NEW 2.1",
     ret      |-> "cl_int",
     name     |-> "clGetHostTimer",
     params   |-> <<
         Param("cl_device_id", "device"),
         Param("cl_ulong*", "host_timestamp") >>,
     suffixes |-> << "CL_API_SUFFIX__VERSION_2_1" >>]

\* new21.h:18-23
clCreateCommandQueueWithProperties ==
    [banner   |-> "NEW 2.0",
     ret      |-> "cl_command_queue",
     name     |-> "clCreateCommandQueueWithProperties",
     params   |-> <<
         Param("cl_context", "context"),
         Param("cl_device_id", "device"),
         Param("const cl_queue_properties*", "properties"),
         Param("cl_int*", "errcode_ret") >>,
     suffixes |-> << "CL_API_SUFFIX__VERSION_2_0" >>]

\* Faulty variant of clCreatePipe: the pipe constructor without its trailing errcode_ret.
clCreatePipe_NoErrcode ==
    [banner   |-> "NEW 2.0",
     ret      |-> "cl_mem",
     name     |-> "clCreatePipe",
     params   |-> <<
         Param("cl_context", "context"),
         Param("cl_mem_flags", "flags"),
         Param("cl_uint", "pipe_packet_size"),
         Param("cl_uint", "pipe_max_packets"),
         Param("const cl_pipe_properties*", "properties") >>,
     suffixes |-> << "CL_API_SUFFIX__VERSION_2_0" >>]

\* new21.h:26-33
clCreatePipe ==
    [banner   |-> "NEW 2.0",
     ret      |-> "cl_mem",
     name     |-> "clCreatePipe",
     params   |-> <<
         Param("cl_context", "context"),
         Param("cl_mem_flags", "flags"),
         Param("cl_uint", "pipe_packet_size"),
         Param("cl_uint", "pipe_max_packets"),
         Param("const cl_pipe_properties*", "properties"),
         Param("cl_int*", "errcode_ret") >>,
     suffixes |-> << "CL_API_SUFFIX__VERSION_2_0" >>]

\* Faulty variant of clGetPipeInfo: the pipe query with an errcode_ret appended to a cl_int return.
clGetPipeInfo_WithErrcode ==
    [banner   |-> "NEW 2.0",
     ret      |-> "cl_int",
     name     |-> "clGetPipeInfo",
     params   |-> <<
         Param("cl_mem", "pipe"),
         Param("cl_pipe_info", "param_name"),
         Param("size_t", "param_value_size"),
         Param("void*", "param_value"),
         Param("size_t*", "param_value_size_ret"),
         Param("cl_int*", "errcode_ret") >>,
     suffixes |-> << "CL_API_SUFFIX__VERSION_2_0" >>]

\* new21.h:36-42
clGetPipeInfo ==
    [banner   |-> "NEW 2.0",
     ret      |-> "cl_int",
     name     |-> "clGetPipeInfo",
     params   |-> <<
         Param("cl_mem", "pipe"),
         Param("cl_pipe_info", "param_name"),
         Param("size_t", "param_value_size"),
         Param("void*", "param_value"),
         Param("size_t*", "param_value_size_ret") >>,
     suffixes |-> << "CL_API_SUFFIX__VERSION_2_0" >>]

\* new21.h:45-50
clSVMAlloc ==
    [banner   |-> "NEW 2.0",
     ret      |-> "void*",
     name     |-> "clSVMAlloc",
     params   |-> <<
         Param("cl_context", "context"),
         Param("cl_svm_mem_flags", "flags"),
         Param("size_t", "size"),
         Param("cl_uint", "alignment") >>,
     suffixes |-> << "CL_API_SUFFIX__VERSION_2_0" >>]

\* Faulty variant of clSVMFree: the free entry carrying a 1.2 suffix.
clSVMFree_Tagged12 ==
    [banner   |-> "NEW 2.0",
     ret      |-> "void",
     name     |-> "clSVMFree",
     params   |-> <<
         Param("cl_context", "context"),
         Param("void*", "svm_pointer") >>,
     suffixes |-> << "CL_API_SUFFIX__VERSION_1_2" >>]

\* new21.h:52-55
clSVMFree ==
    [banner   |-> "NEW 2.0",
     ret      |-> "void",
     name     |-> "clSVMFree",
     params   |-> <<
         Param("cl_context", "context"),
         Param("void*", "svm_pointer") >>,
     suffixes |-> << "CL_API_SUFFIX__VERSION_2_0" >>]

\* new21.h:58-62
clCreateSamplerWithProperties ==
    [banner   |-> "NEW 2.0",
     ret      |-> "cl_sampler",
     name     |-> "clCreateSamplerWithProperties",
     params   |-> <<
         Param("cl_context", "context"),
         Param("const cl_sampler_properties*", "normalized_coords"),
         Param("cl_int*", "errcode_ret") >>,
     suffixes |-> << "CL_API_SUFFIX__VERSION_2_0" >>]

\* Faulty variant of clCreateProgramWithIL: the IL constructor under a NEW 2.0 banner.
clCreateProgramWithIL_Banner20 ==
    [banner   |-> "NEW 2.0",
     ret      |-> "cl_program",
     name     |-> "clCreateProgramWithIL",
     params   |-> <<
         Param("cl_context", "context"),
         Param("const void*", "il"),
         Param("size_t", "length"),
         Param("cl_int*", "errcode_ret") >>,
     suffixes |-> << "CL_API_SUFFIX__VERSION_2_1" >>]

\* new21.h:64-69
clCreateProgramWithIL ==
    [banner   |-> "NEW 2.1",
     ret      |-> "cl_program",
     name     |-> "clCreateProgramWithIL",
     params   |-> <<
         Param("cl_context", "context"),
         Param("const void*", "il"),
         Param("size_t", "length"),
         Param("cl_int*", "errcode_ret") >>,
     suffixes |-> << "CL_API_SUFFIX__VERSION_2_1" >>]

\* Faulty variant of clCloneKernel: the clone entry carrying the 2.0 suffix instead of the 2.1 one.
clCloneKernel_Tagged20 ==
    [banner   |-> "NEW 2.1",
     ret      |-> "cl_kernel",
     name     |-> "clCloneKernel",
     params   |-> <<
         Param("cl_kernel", "source_kernel"),
         Param("cl_int*", "errcode_ret") >>,
     suffixes |-> << "CL_API_SUFFIX__VERSION_2_0" >>]

\* new21.h:71-74
clCloneKernel ==
    [banner   |-> "NEW 2.1",
     ret      |-> "cl_kernel",
     name     |-> "clCloneKernel",
     params   |-> <<
         Param("cl_kernel", "source_kernel"),
         Param("cl_int*", "errcode_ret") >>,
     suffixes |-> << "CL_API_SUFFIX__VERSION_2_1" >>]

\* new21.h:76-80
clSetKernelArgSVMPointer ==
    [banner   |-> "NEW 2.0",
     ret      |-> "cl_int",
     name     |-> "clSetKernelArgSVMPointer",
     params   |-> <<
         Param("cl_kernel", "kernel"),
         Param("cl_uint", "arg_index"),
         Param("const void*", "arg_value") >>,
     suffixes |-> << "CL_API_SUFFIX__VERSION_2_0" >>]

\* new21.h:82-87
clSetKernelExecInfo ==
    [banner   |-> "NEW 2.0",
     ret      |-> "cl_int",
     name     |-> "clSetKernelExecInfo",
     params   |-> <<
         Param("cl_kernel", "kernel"),
         Param("cl_kernel_exec_info", "param_name"),
         Param("size_t", "param_value_size"),
         Param("const void*", "param_value") >>,
     suffixes |-> << "CL_API_SUFFIX__VERSION_2_0" >>]

\* new21.h:90-99
clGetKernelSubGroupInfo ==
    [banner   |-> "NEW 2.1",
     ret      |-> "cl_int",
     name     |-> "clGetKernelSubGroupInfo",
     params   |-> <<
         Param("cl_kernel", "kernel"),
         Param("cl_device_id", "device"),
         Param("cl_kernel_sub_group_info", "param_name"),
         Param("size_t", "input_value_size"),
         Param("const void*", "input_value"),
         Param("size_t", "param_value_size"),
         Param("void*", "param_value"),
         Param("size_t*", "param_value_size_ret") >>,
     suffixes |-> << "CL_API_SUFFIX__VERSION_2_1" >>]

\* new21.h:102-114
clEnqueueSVMFree ==
    [banner   |-> "NEW 2.0",
     ret      |-> "cl_int",
     name     |-> "clEnqueueSVMFree",
     params   |-> <<
         Param("cl_command_queue", "command_queue"),
         Param("cl_uint", "num_svm_pointers"),
         Param("void*[]", "svm_pointers[]"),
         Param("void (CL_CALLBACK*)(cl_command_queue, cl_uint, void*[], void*)", "pfn_free_func"),
         Param("void*", "user_data"),
         Param("cl_uint", "num_events_in_wait_list"),
         Param("const cl_event*", "event_wait_list"),
         Param("cl_event*", "event") >>,
     suffixes |-> << "CL_API_SUFFIX__VERSION_2_0" >>]

\* new21.h:116-125
clEnqueueSVMMemcpy ==
    [banner   |-> "NEW 2.0",
     ret      |-> "cl_int",
     name     |-> "clEnqueueSVMMemcpy",
     params   |-> <<
         Param("cl_command_queue", "command_queue"),
         Param("cl_bool", "blocking_copy"),
         Param("void*", "dst_ptr"),
         Param("const void*", "src_ptr"),
         Param("size_t", "size"),
         Param("cl_uint", "num_events_in_wait_list"),
         Param("const cl_event*", "event_wait_list"),
         Param("cl_event*", "event") >>,
     suffixes |-> << "CL_API_SUFFIX__VERSION_2_0" >>]

\* new21.h:127-136
clEnqueueSVMMemFill ==
    [banner   |-> "NEW 2.0",
     ret      |-> "cl_int",
     name     |-> "clEnqueueSVMMemFill",
     params   |-> <<
         Param("cl_command_queue", "command_queue"),
         Param("void*", "svm_ptr"),
         Param("const void*", "pattern"),
         Param("size_t", "pattern_size"),
         Param("size_t", "size"),
         Param("cl_uint", "num_events_in_wait_list"),
         Param("const cl_event*", "event_wait_list"),
         Param("cl_event*", "event") >>,
     suffixes |-> << "CL_API_SUFFIX__VERSION_2_0" >>]

\* new21.h:138-147
clEnqueueSVMMap ==
    [banner   |-> "NEW 2.0",
     ret      |-> "cl_int",
     name     |-> "clEnqueueSVMMap",
     params   |-> <<
         Param("cl_command_queue", "command_queue"),
         Param("cl_bool", "blocking_map"),
         Param("cl_map_flags", "flags"),
         Param("void*", "svm_ptr"),
         Param("size_t", "size"),
         Param("cl_uint", "num_events_in_wait_list"),
         Param("const cl_event*", "event_wait_list"),
         Param("cl_event*", "event") >>,
     suffixes |-> << "CL_API_SUFFIX__VERSION_2_0" >>]

\* Faulty variant of clEnqueueSVMUnmap: the unmap command with the output event placed before the wait list.
clEnqueueSVMUnmap_EventFirst ==
    [banner   |-> "NEW 2.0",
     ret      |-> "cl_int",
     name     |-> "clEnqueueSVMUnmap",
     params   |-> <<
         Param("cl_command_queue", "command_queue"),
         Param("void*", "svm_ptr"),
         Param("cl_event*", "event"),
         Param("cl_uint", "num_events_in_wait_list"),
         Param("const cl_event*", "event_wait_list") >>,
     suffixes |-> << "CL_API_SUFFIX__VERSION_2_0" >>]

\* new21.h:149-155
clEnqueueSVMUnmap ==
    [banner   |-> "NEW 2.0",
     ret      |-> "cl_int",
     name     |-> "clEnqueueSVMUnmap",
     params   |-> <<
         Param("cl_command_queue", "command_queue"),
         Param("void*", "svm_ptr"),
         Param("cl_uint", "num_events_in_wait_list"),
         Param("const cl_event*", "event_wait_list"),
         Param("cl_event*", "event") >>,
     suffixes |-> << "CL_API_SUFFIX__VERSION_2_0" >>]

\* new21.h:157-166
clEnqueueSVMMigrateMem ==
    [banner   |-> "NEW 2.1",
     ret      |-> "cl_int",
     name     |-> "clEnqueueSVMMigrateMem",
     params   |-> <<
         Param("cl_command_queue", "command_queue"),
         Param("cl_uint", "num_svm_pointers"),
         Param("const void**", "svm_pointers"),
         Param("const size_t*", "sizes"),
         Param("cl_mem_migration_flags", "flags"),
         Param("cl_uint", "num_events_in_wait_list"),
         Param("const cl_event*", "event_wait_list"),
         Param("cl_event*", "event") >>,
     suffixes |-> << "CL_API_SUFFIX__VERSION_2_1" >>]

\* The header: every declaration, in file order.
Header ==
    << clSetDefaultDeviceCommandQueue,
       clGetDeviceAndHostTimer,
       clGetHostTimer,
       clCreateCommandQueueWithProperties,
       clCreatePipe,
       clGetPipeInfo,
       clSVMAlloc,
       clSVMFree,
       clCreateSamplerWithProperties,
       clCreateProgramWithIL,
       clCloneKernel,
       clSetKernelArgSVMPointer,
       clSetKernelExecInfo,
       clGetKernelSubGroupInfo,
       clEnqueueSVMFree,
       clEnqueueSVMMemcpy,
       clEnqueueSVMMemFill,
       clEnqueueSVMMap,
       clEnqueueSVMUnmap,
       clEnqueueSVMMigrateMem >>

Declared == {Header[i] : i \in DOMAIN Header}

EntryPoints == {d.name : d \in Declared}

\* The declaration a name refers to.
Decl(n) == CHOOSE d \in Declared : d.name = n

\* Revision named by a "NEW x.y" banner; 0 for any other text.
BannerRevision(b) ==
    CASE b = "NEW 2.0" -> 20
      [] b = "NEW 2.1" -> 21
      [] OTHER         -> 0

\* Revision named by a CL_API_SUFFIX__VERSION_x_y macro; 0 for any other.
SuffixRevision(s) ==
    CASE s = "CL_API_SUFFIX__VERSION_1_0" -> 10
      [] s = "CL_API_SUFFIX__VERSION_1_1" -> 11
      [] s = "CL_API_SUFFIX__VERSION_1_2" -> 12
      [] s = "CL_API_SUFFIX__VERSION_2_0" -> 20
      [] s = "CL_API_SUFFIX__VERSION_2_1" -> 21
      [] s = "CL_API_SUFFIX__VERSION_2_2" -> 22
      [] OTHER                            -> 0

\* Revisions a declaration is tagged with.
Revisions(d) == {SuffixRevision(d.suffixes[i]) : i \in DOMAIN d.suffixes}

\* The revision that gates a declaration: the newest one it is tagged with,
\* 0 (always available) when it carries no suffix.
Revision(d) ==
    IF Revisions(d) = {} THEN 0
    ELSE CHOOSE r \in Revisions(d) : \A q \in Revisions(d) : q <= r

\* The status out-parameter.
ErrcodeRet == Param("cl_int*", "errcode_ret")

ErrcodeRetSlots(d) == {i \in DOMAIN d.params : d.params[i] = ErrcodeRet}

HasErrcodeRet(d) == ErrcodeRetSlots(d) # {}

ErrcodeRetLast(d) ==
    /\ Len(d.params) > 0
    /\ d.params[Len(d.params)] = ErrcodeRet

ReturnsStatus(d) == d.ret = "cl_int"

\* Number of ways a declaration can report a status code.
ErrorChannels(d) ==
    Cardinality(ErrcodeRetSlots(d)) + (IF ReturnsStatus(d) THEN 1 ELSE 0)

\* Return types that are object handles.
ObjectHandles ==
    {"cl_command_queue", "cl_mem", "cl_sampler", "cl_program", "cl_kernel"}

\* The clEnqueueSVM* commands.
EnqueueSVMEntries ==
    {"clEnqueueSVMFree", "clEnqueueSVMMemcpy", "clEnqueueSVMMemFill",
     "clEnqueueSVMMap", "clEnqueueSVMUnmap", "clEnqueueSVMMigrateMem"}

\* The three trailing parameters of a command.
EventTail ==
    << Param("cl_uint", "num_events_in_wait_list"),
       Param("const cl_event*", "event_wait_list"),
       Param("cl_event*", "event") >>

EndsWithEventTail(d) ==
    /\ Len(d.params) >= 3
    /\ SubSeq(d.params, Len(d.params) - 2, Len(d.params)) = EventTail

TakesEvents(d) ==
    \E i \in DOMAIN d.params :
        \/ d.params[i].type \in {"cl_event*", "const cl_event*"}
        \/ d.params[i].name \in {EventTail[k].name : k \in DOMAIN EventTail}

(***************************************************************************)
(* The binding layer.                                                      *)
(*   version - the version the platform reported                           *)
(*   current - the entry point of the latest call, "none" before the first *)
(*   status  - "idle", "checking" (call made, version check pending),      *)
(*             "dispatched" (handed to the driver) or "unavailable"        *)
(*             (refused by the version check)                              *)
(*   calls   - the entry points invoked on the driver, in order            *)
(***************************************************************************)
VARIABLES version, current, status, calls

vars == <<version, current, status, calls>>

TypeOK ==
    /\ version \in Versions
    /\ current \in EntryPoints \cup {"none"}
    /\ status \in {"idle", "checking", "dispatched", "unavailable"}
    /\ calls \in Seq(EntryPoints)
    /\ Len(calls) <= MaxCalls

Init ==
    /\ version \in Versions
    /\ current = "none"
    /\ status = "idle"
    /\ calls = << >>

\* The runtime version check of entry point n.
Supported(n) == version >= Revision(Decl(n))

\* The caller calls declared entry point d through the binding layer.
Invoke(d) ==
    /\ status # "checking"
    /\ Len(calls) < MaxCalls
    /\ current' = d.name
    /\ status' = "checking"
    /\ UNCHANGED <<version, calls>>

\* The version check passes: the call is invoked on the driver.
Dispatch ==
    /\ status = "checking"
    /\ Supported(current)
    /\ calls' = Append(calls, current)
    /\ status' = "dispatched"
    /\ UNCHANGED <<version, current>>

\* The version check fails: the call never reaches the driver.
Refuse ==
    /\ status = "checking"
    /\ ~Supported(current)
    /\ status' = "unavailable"
    /\ UNCHANGED <<version, current, calls>>

Next ==
    \/ \E d \in Declared : Invoke(d)
    \/ Dispatch
    \/ Refuse

Spec == Init /\ [][Next]_vars

(***************************************************************************)
(* Properties.                                                             *)
(***************************************************************************)

\* Entry points whose declaration the layer has used so far: the one of the
\* latest call and the ones invoked on the driver.  Every declared entry
\* point can be called under every version, so over the reachable states
\* this ranges over the whole header.
Attempted ==
    {calls[i] : i \in DOMAIN calls} \cup
    (IF current = "none" THEN {} ELSE {current})

Dispatched(n) == \E i \in DOMAIN calls : calls[i] = n

\* The entry points the header introduces with revision 2.1.
New21Entries ==
    {"clSetDefaultDeviceCommandQueue", "clGetDeviceAndHostTimer",
     "clGetHostTimer", "clCreateProgramWithIL", "clCloneKernel",
     "clGetKernelSubGroupInfo", "clEnqueueSVMMigrateMem"}

\* C1: an entry point is invoked on the driver only if the reported version
\* is at least the revision of its suffix, and none of the seven 2.1 entries
\* is ever invoked on a driver that reports 2.0.
VersionGating ==
    \A i \in DOMAIN calls :
        /\ version >= Revision(Decl(calls[i]))
        /\ version = 20 => calls[i] \notin New21Entries

\* A 2.0 driver served a 2.0 entry and then refused a 2.1 entry.
VersionGatingWitness ==
    /\ version = 20
    /\ Len(calls) >= 1
    /\ status = "unavailable"
    /\ current \in New21Entries

\* C2: every declaration carries exactly one CL_API_SUFFIX__VERSION_* suffix
\* and its revision is 2.0 or 2.1.
TaggedExactlyOnce ==
    \A n \in Attempted :
        /\ Len(Decl(n).suffixes) = 1
        /\ SuffixRevision(Decl(n).suffixes[1]) \in {20, 21}

\* A 2.2 driver was handed an entry tagged 2.0 and an entry tagged 2.1.
TaggedExactlyOnceWitness ==
    /\ version = 22
    /\ \E n \in EntryPoints : Dispatched(n) /\ Revision(Decl(n)) = 20
    /\ \E n \in EntryPoints : Dispatched(n) /\ Revision(Decl(n)) = 21

\* C3 as stated: every declaration returns cl_int or takes errcode_ret.
StatusSlotInEachSignature ==
    \A n \in Attempted : ReturnsStatus(Decl(n)) \/ HasErrcodeRet(Decl(n))

\* The two SVM allocation entries, which have no status slot.
SVMAllocationEntries == {"clSVMAlloc", "clSVMFree"}

\* C3 amended: every declaration other than clSVMAlloc and clSVMFree returns
\* cl_int or takes errcode_ret; those two do neither.
StatusSlotExceptSVMAllocation ==
    \A n \in Attempted :
        n \notin SVMAllocationEntries
            <=> (ReturnsStatus(Decl(n)) \/ HasErrcodeRet(Decl(n)))

\* The driver was handed an SVM allocation entry and an entry that reports
\* its status through errcode_ret.
StatusSlotWitness ==
    /\ \E n \in SVMAllocationEntries : Dispatched(n)
    /\ \E n \in EntryPoints : Dispatched(n) /\ HasErrcodeRet(Decl(n))

\* C5: the revision of the banner above a declaration is the revision of
\* its suffix: banner 2.0 iff suffix 2_0, banner 2.1 iff suffix 2_1.
BannerMatchesSuffix ==
    \A n \in Attempted :
        \A i \in DOMAIN Decl(n).suffixes :
            /\ BannerRevision(Decl(n).banner) = 20
                   <=> SuffixRevision(Decl(n).suffixes[i]) = 20
            /\ BannerRevision(Decl(n).banner) = 21
                   <=> SuffixRevision(Decl(n).suffixes[i]) = 21

\* Both 2.1 constructors in the middle of the 2.0 block were invoked.
BannerMatchesSuffixWitness ==
    /\ Dispatched("clCreateProgramWithIL")
    /\ Dispatched("clCloneKernel")
    /\ BannerRevision(Decl("clCloneKernel").banner) = 21

\* C6: a declaration has at most one error channel; one that returns an
\* object handle takes cl_int* errcode_ret as its last parameter and one
\* that returns cl_int takes no errcode_ret.
OneErrorChannel ==
    \A n \in Attempted :
        /\ ErrorChannels(Decl(n)) <= 1
        /\ Decl(n).ret \in ObjectHandles => ErrcodeRetLast(Decl(n))
        /\ ReturnsStatus(Decl(n)) => ~HasErrcodeRet(Decl(n))

\* A handle constructor and a cl_int query were both invoked.
OneErrorChannelWitness ==
    /\ \E n \in EntryPoints :
           Dispatched(n) /\ Decl(n).ret \in ObjectHandles
    /\ \E n \in EntryPoints :
           Dispatched(n) /\ ReturnsStatus(Decl(n))
                         /\ n \notin EnqueueSVMEntries

\* C7: every clEnqueueSVM* declaration returns cl_int, takes the command
\* queue first and ends with num_events_in_wait_list, event_wait_list,
\* event; no other declaration takes a wait list or an output event.
EnqueueCommandShape ==
    \A n \in Attempted :
        IF n \in EnqueueSVMEntries
        THEN /\ ReturnsStatus(Decl(n))
             /\ Len(Decl(n).params) >= 1
             /\ Decl(n).params[1].type = "cl_command_queue"
             /\ EndsWithEventTail(Decl(n))
        ELSE ~TakesEvents(Decl(n))

\* A command was enqueued and an entry that is not a command was invoked.
EnqueueCommandShapeWitness ==
    /\ \E n \in EnqueueSVMEntries : Dispatched(n)
    /\ \E n \in EntryPoints \ EnqueueSVMEntries :
           Dispatched(n) /\ Len(Decl(n).params) >= 3

=============================================================================
